---- MODULE Spec2Model ----
(***************************************************************************)
(* A model of the poster editor of src/index.tsx (the full editor, App at  *)
(* lines 330-973): the document (config), the pointer-interaction handlers *)
(* (handleMouseDown, handleMouseMove, the canvas' mouseup / mouseleave),   *)
(* the layer controls (visibility toggle, scale slider), handleGenerate    *)
(* with the background image load, handleExport and drawCanvas; and of the  *)
(* simplified editor of the same file (App at lines 80-310): its pointer   *)
(* handlers with the snap to the grid, its selection and handleGenerate.   *)
(*                                                                         *)
(* Units. Percentages (x, y, pointer positions) are integers. A scale is   *)
(* held in tenths (scale 1.0 is 10). Pixel quantities are held in          *)
(* thousandths of a pixel, so that every product the code forms            *)
(* (1080 * 0.18 * scale, y / 100 * 607.5, ...) is an integer.               *)
(***************************************************************************)
EXTENDS Integers, Sequences, FiniteSets, TLC

VARIABLES
  config,       \* useState<PosterConfig>, the document
  activeDrag,   \* useState<DragState | null>
  isGenerating, \* useState(false)
  bgImgRef,     \* useRef: the background image slot
  logoImgRef,   \* useRef: the logo image slot
  qrImgRef,     \* useRef: the QR image slot
  gen,          \* the pending call of generatePosterBackground, if any
  loads,        \* images created by new Image() whose load has not ended
  canvas,       \* the last drawCanvas call (see Render and CanvasOps)
  uncaught,     \* an exception left a handler
  ev,           \* the event handled last (its kind, pointer position, key)
  steps,        \* number of events handled so far
  generations,  \* number of handleGenerate calls so far
  canvasRef,    \* useRef<HTMLCanvasElement>: the canvas element, once attached
  drawn,        \* number of drawCanvas calls the event handled last made
  simple        \* the state of the simplified editor (App at lines 80-310)

vars == <<config, activeDrag, isGenerating, bgImgRef, logoImgRef, qrImgRef,
          gen, loads, canvas, uncaught, ev, steps, generations, canvasRef,
          drawn, simple>>

\* ------------------------------------------------------------------ bounds

\* Pointer events, layer edits and logo / QR load completions handled in one
\* behaviour.
MaxEvents == 3
\* Clicks on "Regenerate Background" in one behaviour.
MaxGenerations == 2
\* Events the simplified editor handles in one behaviour.
MaxSimpleEvents == 4
\* How far beyond [0,100] the values handed to Snap go, in percent.
SnapMargin == 8

\* ------------------------------------------------------- program constants

\* let minDist = 12 (handleMouseDown): the capture radius, in percent.
CaptureRadius == 12
\* canvas.width = 1080
CanvasWidthPx == 1080

\* The order handleMouseDown scans the placements in.
elements ==
  <<"posLogo", "posBrand", "posEventName", "posBadges",
    "posHeadline", "posSubHeadline", "posCTA", "posQR">>

ElementKeys == {elements[i] : i \in 1..Len(elements)}

\* The layers the "Studio Layer Styling" panel lists (posSubHeadline is not
\* among them): each has a visibility toggle and a scale slider.
LayerKeys ==
  {"posLogo", "posBrand", "posEventName", "posHeadline", "posBadges",
   "posCTA", "posQR"}

AAINEA_LOGO_DEFAULT == "https://aaiena.com/wp-content/uploads/2023/12/aaiena-logo-01.png"

\* An image slot that holds nothing (the ref is null).
NoImage == [src |-> "", width |-> 0, height |-> 0, complete |-> FALSE]

\* activeDrag = null
NoDrag == [key |-> "", offsetX |-> 0, offsetY |-> 0]

ElementPos(x, y, scale, visible) ==
  [x |-> x, y |-> y, scale |-> scale, visible |-> visible]

\* The document App is constructed with.
DefaultConfig ==
  [aspectRatio |-> "9:16",
   theme |-> "Futuristic Dubai skyline, sunset, ultra high tech bridge, glowing nodes, 8k professional render",
   brandName |-> "Aaiena",
   eventName |-> "Dubai Bridge Showcase",
   duration |-> "22nd - 29th Dec",
   price |-> "Dubai Bridge",
   headline |-> "Master AI Tools Today",
   subHeadline |-> "Join our comprehensive workshop to boost your productivity 10x with AI.",
   ctaText |-> "Sign Up Now",
   logoUrl |-> AAINEA_LOGO_DEFAULT,
   qrUrl |-> "",
   colorBrand |-> "#ffffff",
   colorEvent |-> "#3b82f6",
   colorHeadline |-> "#ffffff",
   colorSubHeadline |-> "#e2e8f0",
   colorCTA |-> "#ffffff",
   bgColorCTA |-> "#2563eb",
   colorBadges |-> "#ffffff",
   bgColorBadge1 |-> "rgba(0, 0, 0, 0.6)",
   bgColorBadge2 |-> "rgba(37, 99, 235, 0.6)",
   posLogo |-> ElementPos(5, 5, 10, TRUE),
   posBrand |-> ElementPos(50, 10, 10, TRUE),
   posEventName |-> ElementPos(50, 62, 10, TRUE),
   posBadges |-> ElementPos(5, 15, 10, TRUE),
   posHeadline |-> ElementPos(50, 70, 10, TRUE),
   posSubHeadline |-> ElementPos(50, 78, 10, TRUE),
   posCTA |-> ElementPos(50, 90, 10, TRUE),
   posQR |-> ElementPos(85, 85, 10, FALSE)]

\* ------------------------------------------------------------ pointer input

\* useRef<HTMLCanvasElement>(null): the ref before React attaches the canvas.
NoCanvas == "null"
\* The canvas element React attaches to the ref when it commits the first
\* render.
CanvasElement == "canvas"

\* canvas.getBoundingClientRect(): where the browser laid the canvas out.
rect == [left |-> 40, top |-> 20, width |-> 200, height |-> 400]

\* The mouse event whose pointer is at (px, py) percent of that box.
MouseEventAt(px, py) ==
  [clientX |-> rect.left + (px * rect.width) \div 100,
   clientY |-> rect.top + (py * rect.height) \div 100]

\* The pointer positions the model's mouse events are drawn from, in percent:
\* on the logo's anchor; near the logo and, further, the badges; between the
\* headline and the sub-headline; at equal distance of event name and
\* headline; far from every default anchor; on the hidden QR's anchor; off
\* the canvas on both axes.
PointerPercents ==
  {<<5, 5>>, <<8, 9>>, <<50, 73>>, <<50, 66>>, <<90, 40>>, <<85, 85>>,
   <<-3, 104>>}

MouseEvents == {MouseEventAt(p[1], p[2]) : p \in PointerPercents}

getCanvasMousePos(e) ==
  IF canvasRef = NoCanvas THEN [x |-> 0, y |-> 0]
  ELSE [x |-> ((e.clientX - rect.left) * 100) \div rect.width,
        y |-> ((e.clientY - rect.top) * 100) \div rect.height]

\* ----------------------------------------------------------- hit testing

\* The square of Math.sqrt(dx^2 + dy^2): distances are compared through
\* their squares, which orders them as their square roots do.
DistSq(pos, item) ==
  (pos.x - item.x) * (pos.x - item.x) + (pos.y - item.y) * (pos.y - item.y)

\* The scan without "minDist = d": every element under the capture radius
\* replaces the one found before it.
RECURSIVE ScanKeepsRadius(_, _, _, _)
ScanKeepsRadius(i, cfg, pos, acc) ==
  IF i > Len(elements) THEN acc
  ELSE LET key == elements[i]
           item == cfg[key]
       IN IF ~item.visible THEN ScanKeepsRadius(i + 1, cfg, pos, acc)
          ELSE IF DistSq(pos, item) < acc[2]
               THEN ScanKeepsRadius(i + 1, cfg, pos, <<key, acc[2]>>)
               ELSE ScanKeepsRadius(i + 1, cfg, pos, acc)

\* The scan without "if (!item.visible) return".
RECURSIVE ScanHidden(_, _, _, _)
ScanHidden(i, cfg, pos, acc) ==
  IF i > Len(elements) THEN acc
  ELSE LET key == elements[i]
           d == DistSq(pos, cfg[key])
       IN IF d < acc[2]
          THEN ScanHidden(i + 1, cfg, pos, <<key, d>>)
          ELSE ScanHidden(i + 1, cfg, pos, acc)

\* The body of elements.forEach in handleMouseDown, from the i-th key on:
\* acc is <<closest, minDist squared>>.
RECURSIVE ScanFrom(_, _, _, _)
ScanFrom(i, cfg, pos, acc) ==
  IF i > Len(elements) THEN acc
  ELSE LET key == elements[i]
           item == cfg[key]
       IN IF ~item.visible THEN ScanFrom(i + 1, cfg, pos, acc)
          ELSE LET d == DistSq(pos, item)
               IN IF d < acc[2]
                  THEN ScanFrom(i + 1, cfg, pos, <<key, d>>)
                  ELSE ScanFrom(i + 1, cfg, pos, acc)

\* closest after the scan ("" is null).
Closest(cfg, pos) ==
  ScanFrom(1, cfg, pos, <<"", CaptureRadius * CaptureRadius>>)[1]

\* ---------------------------------------------------------------- drawing

\* px -> thousandths of a pixel
MilliPx(n) == n * 1000

\* config.aspectRatio.split(':').map(Number)
AspectParts(aspectRatio) ==
  CASE aspectRatio = "1:1" -> <<1, 1>>
    [] aspectRatio = "9:16" -> <<9, 16>>
    [] aspectRatio = "16:9" -> <<16, 9>>
    [] aspectRatio = "4:3" -> <<4, 3>>

\* canvas.height = (1080 / wRatio) * hRatio
CanvasHeight(cfg) ==
  LET r == AspectParts(cfg.aspectRatio)
  IN (MilliPx(CanvasWidthPx) \div r[1]) * r[2]

\* px(pct) = (pct / 100) * canvas.width
Px(pct) == (pct * MilliPx(CanvasWidthPx)) \div 100
\* py(pct) = (pct / 100) * canvas.height
Py(cfg, pct) == (pct * CanvasHeight(cfg)) \div 100

\* canvas.width * (permille / 1000) * scale, e.g. (canvas.width * 0.18) * scale
WidthShare(permille, scale) == (CanvasWidthPx * permille * scale) \div 10
\* n * scale for a pixel count n, e.g. 10 * scale
Times(n, scale) == (MilliPx(n) * scale) \div 10

\* String.prototype.toUpperCase, on the texts the model's documents hold.
toUpperCase(s) ==
  CASE s = "Aaiena" -> "AAIENA"
    [] s = "Dubai Bridge Showcase" -> "DUBAI BRIDGE SHOWCASE"
    [] s = "Sign Up Now" -> "SIGN UP NOW"

\* String.prototype.split(' '), on the texts the model's documents hold.
split(s) ==
  CASE s = "Join our comprehensive workshop to boost your productivity 10x with AI." ->
         <<"Join", "our", "comprehensive", "workshop", "to", "boost", "your",
           "productivity", "10x", "with", "AI.">>
    [] s = "" -> <<"">>
    [] s = "https://aaiena.com/workshops/productivity-2024  opens soon" ->
         <<"https://aaiena.com/workshops/productivity-2024", "", "opens", "soon">>
    [] s = "Register at https://aaiena.com/workshops/productivity-2024 today" ->
         <<"Register", "at", "https://aaiena.com/workshops/productivity-2024",
           "today">>

\* The context's state that decides how a fill or a text is painted. Setting
\* canvas.width resets it to these values.
InitialCtx ==
  [textAlign |-> "start", fillStyle |-> "#000000",
   font |-> [weight |-> "normal", size |-> MilliPx(10), family |-> "sans-serif"],
   shadowBlur |-> 0, shadowColor |-> "rgba(0, 0, 0, 0)"]

Font(weight, size) == [weight |-> weight, size |-> size, family |-> "Inter"]

\* Characters of a line held as its words, each followed by one space
\* (line = line + words[n] + ' ').
RECURSIVE LineChars(_)
LineChars(line) ==
  IF line = <<>> THEN 0 ELSE Len(Head(line)) + 1 + LineChars(Tail(line))

\* ctx.measureText(text).width: the browser's font metrics, taken as a fixed
\* advance of 0.6 em per character.
measureChars(n, ctx) == (n * ctx.font.size * 6) \div 10
measureText(s, ctx) == measureChars(Len(s), ctx)

\* The part of the context state that decides what a call paints: the text
\* settings for a text, the fill style for a text or a filled shape, and the
\* shadow, which the canvas draws only with a blur (no block sets an offset).
PaintState(op, ctx) ==
  [textAlign |-> IF op = "fillText" THEN ctx.textAlign ELSE "",
   font |-> IF op = "fillText" THEN ctx.font ELSE Font("", 0),
   fillStyle |-> IF op \in {"fillText", "fillRect", "roundRect"}
                 THEN ctx.fillStyle ELSE "",
   shadowBlur |-> IF op # "clearRect" THEN ctx.shadowBlur ELSE 0,
   shadowColor |-> IF op # "clearRect" /\ ctx.shadowBlur # 0
                   THEN ctx.shadowColor ELSE ""]

\* One call that paints: what it is, for which element's block, where, how
\* large, and with which paint state.
DrawOp(el, op, x, y, w, h, r, text, img, ctx) ==
  [el |-> el, op |-> op, x |-> x, y |-> y, w |-> w, h |-> h, r |-> r,
   text |-> text, img |-> img, paint |-> PaintState(op, ctx)]

\* A loop that measures the line it has, not the line with the next word.
RECURSIVE wrapFromLate(_, _, _, _, _, _, _, _)
wrapFromLate(n, words, line, curY, x, maxWidth, lineHeight, ctx) ==
  IF n > Len(words)
  THEN <<DrawOp("posSubHeadline", "fillText", x, curY, 0, 0, 0, line, NoImage, ctx)>>
  ELSE IF measureChars(LineChars(line), ctx) > maxWidth /\ n > 1
       THEN <<DrawOp("posSubHeadline", "fillText", x, curY, 0, 0, 0, line,
                     NoImage, ctx)>>
            \o wrapFromLate(n + 1, words, <<words[n]>>, curY + lineHeight, x,
                            maxWidth, lineHeight, ctx)
       ELSE wrapFromLate(n + 1, words, Append(line, words[n]), curY, x,
                         maxWidth, lineHeight, ctx)

\* The loop of wrapText from word n on; returns the fillText calls.
RECURSIVE wrapFrom(_, _, _, _, _, _, _, _)
wrapFrom(n, words, line, curY, x, maxWidth, lineHeight, ctx) ==
  IF n > Len(words)
  THEN <<DrawOp("posSubHeadline", "fillText", x, curY, 0, 0, 0, line, NoImage, ctx)>>
  ELSE LET testLine == Append(line, words[n])
       IN IF measureChars(LineChars(testLine), ctx) > maxWidth /\ n > 1
          THEN <<DrawOp("posSubHeadline", "fillText", x, curY, 0, 0, 0, line,
                        NoImage, ctx)>>
               \o wrapFrom(n + 1, words, <<words[n]>>, curY + lineHeight, x,
                           maxWidth, lineHeight, ctx)
          ELSE wrapFrom(n + 1, words, testLine, curY, x, maxWidth, lineHeight, ctx)

wrapText(ctx, text, x, y, maxWidth, lineHeight) ==
  wrapFrom(1, split(text), <<>>, y, x, maxWidth, lineHeight, ctx)

\* Each block of drawCanvas takes the context state the blocks before it left
\* and returns the state it leaves and the calls it made.
Painted(ctx, ops) == [ctx |-> ctx, ops |-> ops]

DrawBackground(cfg, refs, ctx) ==
  LET cleared == DrawOp("background", "clearRect", 0, 0, MilliPx(CanvasWidthPx),
                        CanvasHeight(cfg), 0, <<>>, NoImage, ctx)
  IN IF refs.bg # NoImage /\ refs.bg.complete
     THEN Painted(ctx,
            <<cleared,
              DrawOp("background", "drawImage", 0, 0, MilliPx(CanvasWidthPx),
                     CanvasHeight(cfg), 0, <<>>, refs.bg, ctx)>>)
     ELSE LET c == [ctx EXCEPT !.fillStyle = "linear-gradient(#0f172a, #020617)"]
          IN Painted(c,
               <<cleared,
                 DrawOp("background", "fillRect", 0, 0, MilliPx(CanvasWidthPx),
                        CanvasHeight(cfg), 0, <<>>, NoImage, c)>>)

DrawLogo(cfg, refs, ctx) ==
  IF cfg.posLogo.visible /\ refs.logo # NoImage /\ refs.logo.complete
  THEN LET lw == WidthShare(180, cfg.posLogo.scale)
           lh == (refs.logo.height * lw) \div refs.logo.width
       IN Painted(ctx,
            <<DrawOp("posLogo", "drawImage", Px(cfg.posLogo.x),
                     Py(cfg, cfg.posLogo.y), lw, lh, 0, <<>>, refs.logo, ctx)>>)
  ELSE Painted(ctx, <<>>)

DrawBrand(cfg, refs, ctx) ==
  IF cfg.posBrand.visible
  THEN LET c == [ctx EXCEPT !.textAlign = "center", !.fillStyle = cfg.colorBrand,
                            !.font = Font("bold", WidthShare(40, cfg.posBrand.scale))]
       IN Painted(c,
            <<DrawOp("posBrand", "fillText", Px(cfg.posBrand.x),
                     Py(cfg, cfg.posBrand.y), 0, 0, 0,
                     <<toUpperCase(cfg.brandName)>>, NoImage, c)>>)
  ELSE Painted(ctx, <<>>)

DrawEventName(cfg, refs, ctx) ==
  IF cfg.posEventName.visible
  THEN LET c == [ctx EXCEPT !.textAlign = "center", !.fillStyle = cfg.colorEvent,
                            !.font = Font("bold", WidthShare(30, cfg.posEventName.scale))]
       IN Painted(c,
            <<DrawOp("posEventName", "fillText", Px(cfg.posEventName.x),
                     Py(cfg, cfg.posEventName.y), 0, 0, 0,
                     <<toUpperCase(cfg.eventName)>>, NoImage, c)>>)
  ELSE Painted(ctx, <<>>)

DrawBadges(cfg, refs, ctx) ==
  IF cfg.posBadges.visible
  THEN LET scale == cfg.posBadges.scale
           x == Px(cfg.posBadges.x)
           y == Py(cfg, cfg.posBadges.y)
           c0 == [ctx EXCEPT !.textAlign = "left",
                             !.font = Font("600", WidthShare(26, scale))]
           c1 == [c0 EXCEPT !.fillStyle = cfg.bgColorBadge1]
           dW == measureText(cfg.duration, c1) + MilliPx(34)
           bH == WidthShare(55, scale)
           c2 == [c1 EXCEPT !.fillStyle = cfg.colorBadges]
           c3 == [c2 EXCEPT !.fillStyle = cfg.bgColorBadge2]
           pW == measureText(cfg.price, c3) + MilliPx(34)
           c4 == [c3 EXCEPT !.fillStyle = cfg.colorBadges]
       IN Painted(c4,
            <<DrawOp("posBadges", "roundRect", x, y, dW, bH, Times(10, scale),
                     <<>>, NoImage, c1),
              DrawOp("posBadges", "fillText", x + Times(17, scale),
                     y + (bH \div 2) + Times(10, scale), 0, 0, 0,
                     <<cfg.duration>>, NoImage, c2),
              DrawOp("posBadges", "roundRect", x + dW + Times(15, scale), y, pW, bH,
                     Times(10, scale), <<>>, NoImage, c3),
              DrawOp("posBadges", "fillText", x + dW + Times(32, scale),
                     y + (bH \div 2) + Times(10, scale), 0, 0, 0,
                     <<cfg.price>>, NoImage, c4)>>)
  ELSE Painted(ctx, <<>>)

\* The headline block without its own ctx.textAlign = "center".
DrawHeadlineInheritsAlign(cfg, refs, ctx) ==
  IF cfg.posHeadline.visible
  THEN LET c == [ctx EXCEPT !.fillStyle = cfg.colorHeadline,
                            !.font = Font("900", WidthShare(80, cfg.posHeadline.scale)),
                            !.shadowBlur = 20, !.shadowColor = "rgba(0,0,0,0.5)"]
       IN Painted([c EXCEPT !.shadowBlur = 0],
            <<DrawOp("posHeadline", "fillText", Px(cfg.posHeadline.x),
                     Py(cfg, cfg.posHeadline.y), 0, 0, 0, <<cfg.headline>>,
                     NoImage, c)>>)
  ELSE Painted(ctx, <<>>)

\* The headline block without its test of visible.
DrawHeadlineAlways(cfg, refs, ctx) ==
  LET c == [ctx EXCEPT !.textAlign = "center", !.fillStyle = cfg.colorHeadline,
                       !.font = Font("900", WidthShare(80, cfg.posHeadline.scale)),
                       !.shadowBlur = 20, !.shadowColor = "rgba(0,0,0,0.5)"]
  IN Painted([c EXCEPT !.shadowBlur = 0],
       <<DrawOp("posHeadline", "fillText", Px(cfg.posHeadline.x),
                Py(cfg, cfg.posHeadline.y), 0, 0, 0, <<cfg.headline>>,
                NoImage, c)>>)

DrawHeadline(cfg, refs, ctx) ==
  IF cfg.posHeadline.visible
  THEN LET c == [ctx EXCEPT !.textAlign = "center", !.fillStyle = cfg.colorHeadline,
                            !.font = Font("900", WidthShare(80, cfg.posHeadline.scale)),
                            !.shadowBlur = 20, !.shadowColor = "rgba(0,0,0,0.5)"]
       IN Painted([c EXCEPT !.shadowBlur = 0],
            <<DrawOp("posHeadline", "fillText", Px(cfg.posHeadline.x),
                     Py(cfg, cfg.posHeadline.y), 0, 0, 0, <<cfg.headline>>,
                     NoImage, c)>>)
  ELSE Painted(ctx, <<>>)

DrawSubHeadline(cfg, refs, ctx) ==
  IF cfg.posSubHeadline.visible
  THEN LET scale == cfg.posSubHeadline.scale
           c == [ctx EXCEPT !.textAlign = "center",
                            !.fillStyle = cfg.colorSubHeadline,
                            !.font = Font("500", WidthShare(38, scale))]
       IN Painted(c,
            wrapText(c, cfg.subHeadline, Px(cfg.posSubHeadline.x),
                     Py(cfg, cfg.posSubHeadline.y),
                     (MilliPx(CanvasWidthPx) * 85) \div 100, WidthShare(55, scale)))
  ELSE Painted(ctx, <<>>)

DrawQR(cfg, refs, ctx) ==
  IF cfg.posQR.visible /\ refs.qr # NoImage /\ refs.qr.complete
  THEN LET scale == cfg.posQR.scale
           qw == WidthShare(140, scale)
           x == Px(cfg.posQR.x)
           y == Py(cfg, cfg.posQR.y)
           c == [ctx EXCEPT !.fillStyle = "white"]
       IN Painted(c,
            <<DrawOp("posQR", "fillRect", x - Times(6, scale), y - Times(6, scale),
                     qw + Times(12, scale), qw + Times(12, scale), 0, <<>>,
                     NoImage, c),
              DrawOp("posQR", "drawImage", x, y, qw, qw, 0, <<>>, refs.qr, c)>>)
  ELSE Painted(ctx, <<>>)

DrawCTA(cfg, refs, ctx) ==
  IF cfg.posCTA.visible
  THEN LET scale == cfg.posCTA.scale
           x == Px(cfg.posCTA.x)
           y == Py(cfg, cfg.posCTA.y)
           c0 == [ctx EXCEPT !.textAlign = "center",
                             !.font = Font("900", WidthShare(45, scale))]
           txt == toUpperCase(cfg.ctaText)
           cW == measureText(txt, c0) + MilliPx(80)
           cH == WidthShare(110, scale)
           c1 == [c0 EXCEPT !.fillStyle = cfg.bgColorCTA]
           c2 == [c1 EXCEPT !.fillStyle = cfg.colorCTA]
       IN Painted(c2,
            <<DrawOp("posCTA", "roundRect", x - (cW \div 2), y, cW, cH,
                     Times(20, scale), <<>>, NoImage, c1),
              DrawOp("posCTA", "fillText", x, y + (cH \div 2) + Times(12, scale),
                     0, 0, 0, <<txt>>, NoImage, c2)>>)
  ELSE Painted(ctx, <<>>)

\* drawCanvas with the document cfg it closed over and the image slots as
\* they are when it runs: the calls in the order they are made.
drawCanvas(cfg, refs) ==
  LET s0 == DrawBackground(cfg, refs, InitialCtx)
      s1 == DrawLogo(cfg, refs, s0.ctx)
      s2 == DrawBrand(cfg, refs, s1.ctx)
      s3 == DrawEventName(cfg, refs, s2.ctx)
      s4 == DrawBadges(cfg, refs, s3.ctx)
      s5 == DrawHeadline(cfg, refs, s4.ctx)
      s6 == DrawSubHeadline(cfg, refs, s5.ctx)
      s7 == DrawQR(cfg, refs, s6.ctx)
      s8 == DrawCTA(cfg, refs, s7.ctx)
  IN s0.ops \o s1.ops \o s2.ops \o s3.ops \o s4.ops \o s5.ops \o s6.ops
     \o s7.ops \o s8.ops

\* The three image slots as drawCanvas reads them.
Refs(bg, logo, qr) == [bg |-> bg, logo |-> logo, qr |-> qr]

\* ------------------------------------------------------------ image loads

\* The image a finished load of src leaves in its Image object.
Decoded(src) == [src |-> src, width |-> 400, height |-> 200, complete |-> TRUE]

\* An Image whose src was set and whose onload / onerror has not run yet. Its
\* handlers call the drawCanvas of the render that created it, which closed
\* over that render's document cfg.
Load(id, slot, src, cfg) == [id |-> id, slot |-> slot, src |-> src, cfg |-> cfg]

\* The effect on [config.logoUrl, config.qrUrl, drawCanvas]: drawCanvas is
\* made anew whenever config is, so the effect runs after every change of
\* the document and starts a load of the logo and, with a qrUrl, of the QR.
StartedLoads(cfg, id) ==
  {Load(id, "logo", cfg.logoUrl, cfg)}
  \cup (IF cfg.qrUrl # "" THEN {Load(id, "qr", cfg.qrUrl, cfg)} ELSE {})

\* A call of drawCanvas, held as the document it closed over and the slots
\* it read: what it painted is drawCanvas of the two.
Render(cfg, refs) == [cfg |-> cfg, refs |-> refs]

CurrentRefs == Refs(bgImgRef, logoImgRef, qrImgRef)

\* What the canvas holds after a call of the drawCanvas that closed over cfg:
\* without a canvas element the call returns at once (if (!canvas) return).
Drawn(cfg, refs) ==
  IF canvasRef = NoCanvas THEN canvas ELSE Render(cfg, refs)

\* What follows a setConfig: the component renders with the new document
\* and both effects run (image loads, then drawCanvas).
Commit(cfg) ==
  /\ config' = cfg
  /\ loads' = loads \cup StartedLoads(cfg, steps + 1)
  /\ canvas' = Drawn(cfg, CurrentRefs)
  /\ drawn' = 1

Event(op, pos, key) == [op |-> op, x |-> pos.x, y |-> pos.y, key |-> key]
NoPos == [x |-> 0, y |-> 0]

\* --------------------------------------- the simplified editor: its state

\* The simplified editor (App at lines 80-310) is a component of its own; the
\* model holds its state in the record simple, under the names of the source.

\* const SNAP_SIZE = 2
SNAP_SIZE == 2

\* selectedElement = null, errorMsg = null
NoSelection == "null"
NoError == "null"

\* The document of the simplified editor: the theme and the placements (the
\* headline starts at scale 1.2).
SimpleDefaultConfig ==
  [theme |-> "Futuristic Dubai skyline, neon lights, tech hub vibe",
   posLogo |-> ElementPos(5, 5, 10, TRUE),
   posBrand |-> ElementPos(50, 12, 10, TRUE),
   posEventName |-> ElementPos(50, 65, 10, TRUE),
   posBadges |-> ElementPos(50, 18, 10, TRUE),
   posHeadline |-> ElementPos(50, 72, 12, TRUE),
   posSubHeadline |-> ElementPos(50, 80, 10, TRUE),
   posCTA |-> ElementPos(50, 90, 10, TRUE),
   posQR |-> ElementPos(85, 85, 10, FALSE)]

SimpleInit ==
  [config |-> SimpleDefaultConfig,
   isGenerating |-> FALSE,
   activeDrag |-> NoDrag,
   selectedElement |-> NoSelection,
   errorMsg |-> NoError,
   canvasRef |-> CanvasElement,
   bgImgRef |-> NoImage,
   gen |-> 0,            \* calls of generatePosterBackground awaited
   loads |-> {},         \* background images whose load has not ended
   uncaught |-> FALSE,   \* an exception left a handler
   ev |-> Event("mount", NoPos, ""),
   steps |-> 0]

\* ------------------------------------------------------------------- state

NoGen == [pending |-> FALSE, cfg |-> DefaultConfig]

Init ==
  /\ config = DefaultConfig
  /\ activeDrag = NoDrag
  /\ isGenerating = FALSE
  /\ bgImgRef = NoImage
  /\ logoImgRef = NoImage
  /\ qrImgRef = NoImage
  /\ gen = NoGen
  /\ loads = StartedLoads(DefaultConfig, 0)
  /\ canvas = Render(DefaultConfig, Refs(NoImage, NoImage, NoImage))
  /\ uncaught = FALSE
  /\ ev = Event("mount", NoPos, "")
  /\ steps = 0
  /\ generations = 0
  /\ canvasRef = CanvasElement
  /\ drawn = 1
  /\ simple = SimpleInit

\* --------------------------------------------------- interaction controller

\* A drag that records no offset.
DragNoOffset(cfg, closest, pos) ==
  [key |-> closest, offsetX |-> 0, offsetY |-> 0]

\* The drag handleMouseDown starts on closest with the pointer at pos.
DragOn(cfg, closest, pos) ==
  [key |-> closest,
   offsetX |-> pos.x - cfg[closest].x,
   offsetY |-> pos.y - cfg[closest].y]

handleMouseDown(e) ==
  LET pos == getCanvasMousePos(e)
      closest == Closest(config, pos)
  IN /\ steps < MaxEvents
     /\ activeDrag' = IF closest # "" THEN DragOn(config, closest, pos)
                      ELSE activeDrag
     /\ ev' = Event("mousedown", pos, closest)
     /\ steps' = steps + 1
     /\ drawn' = 0
     /\ UNCHANGED <<config, isGenerating, bgImgRef, logoImgRef, qrImgRef, gen,
                    loads, canvas, uncaught, generations, canvasRef, simple>>

Max(a, b) == IF a > b THEN a ELSE b
Min(a, b) == IF a < b THEN a ELSE b

\* The placement written without Math.max / Math.min.
DraggedUnclamped(item, drag, pos) ==
  [item EXCEPT !.x = pos.x - drag.offsetX, !.y = pos.y - drag.offsetY]

\* The placement handleMouseMove writes for the dragged element.
Dragged(item, drag, pos) ==
  [item EXCEPT !.x = Max(0, Min(100, pos.x - drag.offsetX)),
               !.y = Max(0, Min(100, pos.y - drag.offsetY))]

handleMouseMove(e) ==
  LET pos == getCanvasMousePos(e)
  IN /\ steps < MaxEvents
     /\ IF activeDrag = NoDrag
        THEN /\ UNCHANGED <<config, loads, canvas>>
             /\ drawn' = 0
        ELSE Commit([config EXCEPT
                       ![activeDrag.key] = Dragged(@, activeDrag, pos)])
     /\ ev' = Event("mousemove", pos, activeDrag.key)
     /\ steps' = steps + 1
     /\ UNCHANGED <<activeDrag, isGenerating, bgImgRef, logoImgRef, qrImgRef,
                    gen, uncaught, generations, canvasRef, simple>>

\* A mouseup handler that leaves the drag as it is.
onMouseUpKeepsDrag ==
  /\ steps < MaxEvents
  /\ ev' = Event("mouseup", NoPos, activeDrag.key)
  /\ steps' = steps + 1
  /\ drawn' = 0
  /\ UNCHANGED <<config, activeDrag, isGenerating, bgImgRef, logoImgRef,
                 qrImgRef, gen, loads, canvas, uncaught, generations,
                 canvasRef, simple>>

\* onMouseUp={() => setActiveDrag(null)}
onMouseUp ==
  /\ steps < MaxEvents
  /\ activeDrag' = NoDrag
  /\ ev' = Event("mouseup", NoPos, activeDrag.key)
  /\ steps' = steps + 1
  /\ drawn' = 0
  /\ UNCHANGED <<config, isGenerating, bgImgRef, logoImgRef, qrImgRef, gen,
                 loads, canvas, uncaught, generations, canvasRef, simple>>

\* onMouseLeave={() => setActiveDrag(null)}
onMouseLeave ==
  /\ steps < MaxEvents
  /\ activeDrag' = NoDrag
  /\ ev' = Event("mouseleave", NoPos, activeDrag.key)
  /\ steps' = steps + 1
  /\ drawn' = 0
  /\ UNCHANGED <<config, isGenerating, bgImgRef, logoImgRef, qrImgRef, gen,
                 loads, canvas, uncaught, generations, canvasRef, simple>>

\* ------------------------------------------------------------ layer controls

\* A toggle that writes a fresh placement instead of spreading the old one.
ToggledFresh(item) == ElementPos(0, 0, 10, ~item.visible)

\* The placement the ACTIVE / MUTED button writes.
Toggled(item) == [item EXCEPT !.visible = ~item.visible]

toggleVisible(key) ==
  /\ steps < MaxEvents
  /\ Commit([config EXCEPT ![key] = Toggled(@)])
  /\ ev' = Event("toggle", NoPos, key)
  /\ steps' = steps + 1
  /\ UNCHANGED <<activeDrag, isGenerating, bgImgRef, logoImgRef, qrImgRef,
                 gen, uncaught, generations, canvasRef, simple>>

\* The values the scale slider (min 0.2, max 2.5, step 0.1) hands to
\* updateScale in the model.
ScaleValues == {"0.2", "2.5"}

\* The strings updateScale is called with when it is called as a function,
\* not only by the slider: in the slider's range, below it and above it.
ScaleInputs == ScaleValues \cup {"0", "5"}

\* parseFloat, in tenths.
parseFloat(s) ==
  CASE s = "0" -> 0
    [] s = "0.2" -> 2
    [] s = "1.5" -> 15
    [] s = "2.5" -> 25
    [] s = "5" -> 50

\* The placement updateScale writes.
Rescaled(item, scaleValue) == [item EXCEPT !.scale = parseFloat(scaleValue)]

\* The slider of a layer is rendered only while the layer is visible.
updateScale(key, scaleValue) ==
  /\ steps < MaxEvents
  /\ config[key].visible
  /\ Commit([config EXCEPT ![key] = Rescaled(@, scaleValue)])
  /\ ev' = Event("scale", NoPos, key)
  /\ steps' = steps + 1
  /\ UNCHANGED <<activeDrag, isGenerating, bgImgRef, logoImgRef, qrImgRef,
                 gen, uncaught, generations, canvasRef, simple>>

\* The texts the model's user types into the theme textarea.
Themes == {DefaultConfig.theme, "Desert dunes at dusk"}

\* onChange of the theme textarea: setConfig({...config, theme: value}). The
\* textarea is not disabled while a generation is pending.
setTheme(value) ==
  /\ steps < MaxEvents
  /\ value # config.theme
  /\ Commit([config EXCEPT !.theme = value])
  /\ ev' = Event("theme", NoPos, value)
  /\ steps' = steps + 1
  /\ UNCHANGED <<activeDrag, isGenerating, bgImgRef, logoImgRef, qrImgRef, gen,
                 uncaught, generations, canvasRef, simple>>

\* The texts the model's user types into the sub-headline textarea: the
\* default, the empty text, a text whose first word is wider than a line and
\* that holds two spaces in a row, and a text with a wide word inside.
SubHeadlines ==
  {DefaultConfig.subHeadline, "",
   "https://aaiena.com/workshops/productivity-2024  opens soon",
   "Register at https://aaiena.com/workshops/productivity-2024 today"}

\* onChange of the sub-headline textarea:
\* setConfig({...config, subHeadline: e.target.value}).
setSubHeadline(value) ==
  /\ steps < MaxEvents
  /\ value # config.subHeadline
  /\ Commit([config EXCEPT !.subHeadline = value])
  /\ ev' = Event("subHeadline", NoPos, value)
  /\ steps' = steps + 1
  /\ UNCHANGED <<activeDrag, isGenerating, bgImgRef, logoImgRef, qrImgRef, gen,
                 uncaught, generations, canvasRef, simple>>

\* -------------------------------------------------------------- file upload

\* The files the model's user picks, and FileReader.readAsDataURL of each.
Files == {"upload.png"}
readAsDataURL(file) ==
  CASE file = "upload.png" -> "data:image/png;base64,VVBMT0FE"

\* The document reader.onload of handleFileUpload writes.
Uploaded(cfg, type, dataUrl) ==
  IF type = "logo"
  THEN [cfg EXCEPT !.logoUrl = dataUrl]
  ELSE [cfg EXCEPT !.qrUrl = dataUrl, !.posQR = [@ EXCEPT !.visible = TRUE]]

\* handleFileUpload with a file chosen, up to and including reader.onload.
handleFileUpload(file, type) ==
  /\ steps < MaxEvents
  /\ Commit(Uploaded(config, type, readAsDataURL(file)))
  /\ ev' = Event("upload", NoPos, type)
  /\ steps' = steps + 1
  /\ UNCHANGED <<activeDrag, isGenerating, bgImgRef, logoImgRef, qrImgRef,
                 gen, uncaught, generations, canvasRef, simple>>

\* ------------------------------------------------------------------ export

\* handleExport: the PNG downloaded is canvas.toDataURL of the canvas as the
\* last drawCanvas call left it; nothing is drawn for the export.
handleExport ==
  /\ steps < MaxEvents
  /\ ev' = Event("export", NoPos, "")
  /\ steps' = steps + 1
  /\ drawn' = 0
  /\ UNCHANGED <<config, activeDrag, isGenerating, bgImgRef, logoImgRef,
                 qrImgRef, gen, loads, canvas, uncaught, generations,
                 canvasRef, simple>>

\* --------------------------------------------------------- load completions

\* l.onload / q.onload of the image-load effect.
imageLoaded(l) ==
  /\ steps < MaxEvents
  /\ l.slot \in {"logo", "qr"}
  /\ loads' = loads \ {l}
  /\ logoImgRef' = IF l.slot = "logo" THEN Decoded(l.src) ELSE logoImgRef
  /\ qrImgRef' = IF l.slot = "qr" THEN Decoded(l.src) ELSE qrImgRef
  /\ canvas' = Drawn(l.cfg, Refs(bgImgRef, logoImgRef', qrImgRef'))
  /\ drawn' = 1
  /\ ev' = Event("load", NoPos, l.slot)
  /\ steps' = steps + 1
  /\ UNCHANGED <<config, activeDrag, isGenerating, bgImgRef, gen, uncaught,
                 generations, canvasRef, simple>>

\* l.onerror / q.onerror of the image-load effect.
imageFailed(l) ==
  /\ steps < MaxEvents
  /\ l.slot \in {"logo", "qr"}
  /\ loads' = loads \ {l}
  /\ canvas' = Drawn(l.cfg, CurrentRefs)
  /\ drawn' = 1
  /\ ev' = Event("error", NoPos, l.slot)
  /\ steps' = steps + 1
  /\ UNCHANGED <<config, activeDrag, isGenerating, bgImgRef, logoImgRef,
                 qrImgRef, gen, uncaught, generations, canvasRef, simple>>

\* ------------------------------------------------------ background generation

\* What process.env.API_KEY may hold ("" is unset) and what the service may
\* answer: the call throws, the answer carries no inlineData part, or it
\* carries one.
ApiKeys == {"", "key"}
ServiceResponses == {"throws", "no_inline_data", "inline_data"}

Rejected(message) == [rejected |-> TRUE, data |-> "", error |-> message]
Resolved(data) == [rejected |-> FALSE, data |-> data, error |-> ""]

\* How the promise of generatePosterBackground (services/gemini.ts) settles.
generatePosterBackground(apiKey, response) ==
  IF apiKey = "" THEN Rejected("Missing API_KEY. Please set your Gemini API key.")
  ELSE IF response = "throws" THEN Rejected("service error")
  ELSE IF response = "inline_data" THEN Resolved("data:image/png;base64,AAAA")
  ELSE Rejected("Empty model response")

\* The click on "Regenerate Background" (disabled while isGenerating):
\* handleGenerate up to its await.
handleGenerate ==
  /\ generations < MaxGenerations
  /\ ~isGenerating
  /\ isGenerating' = TRUE
  /\ gen' = [pending |-> TRUE, cfg |-> config]
  /\ ev' = Event("generate", NoPos, "")
  /\ generations' = generations + 1
  /\ drawn' = 0
  /\ UNCHANGED <<config, activeDrag, bgImgRef, logoImgRef, qrImgRef, loads,
                 canvas, uncaught, steps, canvasRef, simple>>

\* The try block of handleGenerate after the await throws: the promise was
\* rejected, or it gave no data.
Throws(r) == r.rejected \/ r.data = ""

\* handleGenerate without its catch: the exception leaves the handler and
\* isGenerating stays set.
handleGenerateNoCatch == [isGenerating |-> TRUE, uncaught |-> TRUE]

\* catch (e) { console.error(e); setIsGenerating(false); }: what the handler
\* leaves of isGenerating, and whether the exception leaves it.
handleGenerateCatch == [isGenerating |-> FALSE, uncaught |-> FALSE]

\* The error message the full editor holds for the user: the component has
\* no state for one (its useState values are config, isGenerating, activeDrag
\* and showDeployModal) and its catch writes the error to the console only.
FullErrorMsg == NoError

\* A handleGenerate that resets isGenerating as soon as the data arrived,
\* before the image has loaded.
generateSettledResets(r) ==
  /\ gen.pending
  /\ gen' = NoGen
  /\ isGenerating' = FALSE
  /\ IF Throws(r)
     THEN /\ ev' = Event("generate_rejected", NoPos, r.error)
          /\ UNCHANGED loads
     ELSE /\ loads' = loads \cup {Load(generations, "bg", r.data, gen.cfg)}
          /\ ev' = Event("generate_resolved", NoPos, "")
  /\ drawn' = 0
  /\ UNCHANGED <<config, activeDrag, bgImgRef, logoImgRef, qrImgRef, canvas,
                 uncaught, steps, generations, canvasRef, simple>>

\* handleGenerate from its await on, the promise having settled as r.
generateSettled(r) ==
  /\ gen.pending
  /\ gen' = NoGen
  /\ IF Throws(r)
     THEN /\ isGenerating' = handleGenerateCatch.isGenerating
          /\ uncaught' = (uncaught \/ handleGenerateCatch.uncaught)
          /\ ev' = Event("generate_rejected", NoPos, r.error)
          /\ UNCHANGED loads
     ELSE /\ loads' = loads \cup {Load(generations, "bg", r.data, gen.cfg)}
          /\ ev' = Event("generate_resolved", NoPos, "")
          /\ UNCHANGED <<isGenerating, uncaught>>
  /\ drawn' = 0
  /\ UNCHANGED <<config, activeDrag, bgImgRef, logoImgRef, qrImgRef, canvas,
                 steps, generations, canvasRef, simple>>

\* An onload of the generated image that sets the slot and does not draw.
bgImageLoadedNoDraw(l) ==
  /\ l.slot = "bg"
  /\ loads' = loads \ {l}
  /\ bgImgRef' = Decoded(l.src)
  /\ isGenerating' = FALSE
  /\ ev' = Event("load", NoPos, "bg")
  /\ drawn' = 0
  /\ UNCHANGED <<config, activeDrag, logoImgRef, qrImgRef, gen, canvas,
                 uncaught, steps, generations, canvasRef, simple>>

\* img.onload of handleGenerate.
bgImageLoaded(l) ==
  /\ l.slot = "bg"
  /\ loads' = loads \ {l}
  /\ bgImgRef' = Decoded(l.src)
  /\ canvas' = Drawn(l.cfg, Refs(bgImgRef', logoImgRef, qrImgRef))
  /\ drawn' = 1
  /\ isGenerating' = FALSE
  /\ ev' = Event("load", NoPos, "bg")
  /\ UNCHANGED <<config, activeDrag, logoImgRef, qrImgRef, gen, uncaught,
                 steps, generations, canvasRef, simple>>

\* A generated image with no onerror handler: the failed load is dropped and
\* isGenerating keeps its value.
bgImageFailedUnhandled(l) ==
  /\ l.slot = "bg"
  /\ loads' = loads \ {l}
  /\ ev' = Event("error", NoPos, "bg")
  /\ drawn' = 0
  /\ UNCHANGED <<config, activeDrag, isGenerating, bgImgRef, logoImgRef,
                 qrImgRef, gen, canvas, uncaught, steps, generations,
                 canvasRef, simple>>

\* img.onerror of handleGenerate.
bgImageFailed(l) ==
  /\ l.slot = "bg"
  /\ loads' = loads \ {l}
  /\ isGenerating' = FALSE
  /\ ev' = Event("error", NoPos, "bg")
  /\ drawn' = 0
  /\ UNCHANGED <<config, activeDrag, bgImgRef, logoImgRef, qrImgRef, gen,
                 canvas, uncaught, steps, generations, canvasRef, simple>>

\* The calls the last drawCanvas made: what the canvas shows.
CanvasOps == drawCanvas(canvas.cfg, canvas.refs)

\* ------------------------------------ the simplified editor: its handlers

\* The state of the full editor, which the simplified editor does not touch.
FullEditor ==
  <<config, activeDrag, isGenerating, bgImgRef, logoImgRef, qrImgRef, gen,
    loads, canvas, uncaught, ev, steps, generations, canvasRef, drawn>>

\* After a handler of the simplified editor that handled event e.
Handled(state, e) == [state EXCEPT !.ev = e, !.steps = @ + 1]

\* rect of canvasRef.current!.getBoundingClientRect(), and the pointer in
\* percent of it (lines 212-214 and 231-233).
MousePosSimple(e) ==
  [x |-> ((e.clientX - rect.left) * 100) \div rect.width,
   y |-> ((e.clientY - rect.top) * 100) \div rect.height]

\* const keys = ['posBrand', 'posHeadline', 'posCTA', 'posLogo']
SimpleKeys == <<"posBrand", "posHeadline", "posCTA", "posLogo">>

Abs(n) == IF n < 0 THEN -n ELSE n

\* The for loop of the hit detection: the first key whose anchor is less
\* than 10 from the pointer on both axes ("" when the loop ends without).
RECURSIVE HitFrom(_, _, _)
HitFrom(i, cfg, pos) ==
  IF i > Len(SimpleKeys) THEN ""
  ELSE IF /\ Abs(cfg[SimpleKeys[i]].x - pos.x) < 10
          /\ Abs(cfg[SimpleKeys[i]].y - pos.y) < 10
       THEN SimpleKeys[i]
       ELSE HitFrom(i + 1, cfg, pos)

\* setActiveDrag({ key, offsetX: x - pos.x, offsetY: y - pos.y })
DragOnSimple(cfg, key, pos) ==
  [key |-> key, offsetX |-> pos.x - cfg[key].x, offsetY |-> pos.y - cfg[key].y]

\* handleMouseDown of the simplified editor. canvasRef.current! is
\* dereferenced unchecked: without a canvas the call throws a TypeError
\* before any state is set.
handleMouseDownSimple(e) ==
  /\ simple.steps < MaxSimpleEvents
  /\ IF simple.canvasRef = NoCanvas
     THEN simple' = Handled([simple EXCEPT !.uncaught = TRUE],
                            Event("mousedown", NoPos, ""))
     ELSE LET pos == MousePosSimple(e)
              key == HitFrom(1, simple.config, pos)
          IN simple' =
               Handled([simple EXCEPT
                          !.activeDrag =
                             IF key # ""
                             THEN DragOnSimple(simple.config, key, pos) ELSE @,
                          !.selectedElement =
                             IF key # "" THEN key ELSE NoSelection],
                       Event("mousedown", pos, key))
  /\ UNCHANGED FullEditor

\* Math.round(n / d) for integers n and d > 0: the nearest integer, a half
\* going up.
MathRound(n, d) == (2 * n + d) \div (2 * d)

\* A rounding that always goes to the grid line above.
SnapUp(v) == (v \div SNAP_SIZE + 1) * SNAP_SIZE

\* Math.round(v / SNAP_SIZE) * SNAP_SIZE
Snap(v) == MathRound(v, SNAP_SIZE) * SNAP_SIZE

\* The placement handleMouseMove of the simplified editor writes.
DraggedSimple(item, drag, pos) ==
  [item EXCEPT !.x = Snap(pos.x - drag.offsetX),
               !.y = Snap(pos.y - drag.offsetY)]

handleMouseMoveSimple(e) ==
  /\ simple.steps < MaxSimpleEvents
  /\ IF simple.activeDrag = NoDrag
     THEN simple' = Handled(simple, Event("mousemove", NoPos, ""))
     ELSE IF simple.canvasRef = NoCanvas
     THEN simple' = Handled([simple EXCEPT !.uncaught = TRUE],
                            Event("mousemove", NoPos, simple.activeDrag.key))
     ELSE LET pos == MousePosSimple(e)
              drag == simple.activeDrag
          IN simple' =
               Handled([simple EXCEPT
                          !.config[drag.key] = DraggedSimple(@, drag, pos)],
                       Event("mousemove", pos, drag.key))
  /\ UNCHANGED FullEditor

\* A mouseup handler that ends the drag and the selection with it.
onMouseUpSimpleDeselects ==
  /\ simple.steps < MaxSimpleEvents
  /\ simple' = Handled([simple EXCEPT !.activeDrag = NoDrag,
                                      !.selectedElement = NoSelection],
                       Event("mouseup", NoPos, simple.activeDrag.key))
  /\ UNCHANGED FullEditor

\* onMouseUp={() => setActiveDrag(null)} (line 253)
onMouseUpSimple ==
  /\ simple.steps < MaxSimpleEvents
  /\ simple' = Handled([simple EXCEPT !.activeDrag = NoDrag],
                       Event("mouseup", NoPos, simple.activeDrag.key))
  /\ UNCHANGED FullEditor

\* onChange of the theme textarea (line 276).
setThemeSimple(value) ==
  /\ simple.steps < MaxSimpleEvents
  /\ value # simple.config.theme
  /\ simple' = Handled([simple EXCEPT !.config.theme = value],
                       Event("theme", NoPos, value))
  /\ UNCHANGED FullEditor

\* generatePosterBackground of the simplified editor (lines 58-77): how its
\* promise settles, for an API key ("" when neither process.env.API_KEY nor
\* window.customApiKey is set) and an answer of the service.
generatePosterBackgroundSimple(apiKey, response) ==
  IF apiKey = ""
  THEN Rejected("Missing API Key. Please provide your Gemini API key.")
  ELSE IF response = "throws" THEN Rejected("service error")
  ELSE IF response = "inline_data" THEN Resolved("data:image/png;base64,AAAA")
  ELSE Rejected("Failed to generate image.")

\* handleGenerate of the simplified editor up to its await. Its button is
\* never disabled, so a call may start while others are awaited.
handleGenerateSimple ==
  /\ simple.steps < MaxSimpleEvents
  /\ simple' = Handled([simple EXCEPT !.isGenerating = TRUE,
                                      !.errorMsg = NoError,
                                      !.gen = @ + 1],
                       Event("generate", NoPos, ""))
  /\ UNCHANGED FullEditor

\* A catch that only clears isGenerating.
handleGenerateCatchSimpleSilent(state, message) ==
  [state EXCEPT !.isGenerating = FALSE]

\* catch (e: any) { setErrorMsg(e.message); setIsGenerating(false); }
handleGenerateCatchSimple(state, message) ==
  [state EXCEPT !.errorMsg = message, !.isGenerating = FALSE]

\* handleGenerate of the simplified editor from its await on, the promise
\* having settled as r.
generateSettledSimple(r) ==
  /\ simple.steps < MaxSimpleEvents
  /\ simple.gen > 0
  /\ simple' =
       IF r.rejected
       THEN Handled(handleGenerateCatchSimple([simple EXCEPT !.gen = @ - 1],
                                              r.error),
                    Event("generate_rejected", NoPos, r.error))
       ELSE Handled([simple EXCEPT
                       !.gen = @ - 1,
                       !.loads = @ \cup {[id |-> simple.steps, src |-> r.data]}],
                    Event("generate_resolved", NoPos, ""))
  /\ UNCHANGED FullEditor

\* img.onload of the simplified editor's handleGenerate (line 203).
bgImageLoadedSimple(l) ==
  /\ simple.steps < MaxSimpleEvents
  /\ l \in simple.loads
  /\ simple' = Handled([simple EXCEPT !.loads = @ \ {l},
                                      !.bgImgRef = Decoded(l.src),
                                      !.isGenerating = FALSE],
                       Event("load", NoPos, "bg"))
  /\ UNCHANGED FullEditor

\* ------------------------------------------------------------ specification

Next ==
  \/ \E e \in MouseEvents : handleMouseDown(e)
  \/ \E e \in MouseEvents : handleMouseMove(e)
  \/ onMouseUp
  \/ onMouseLeave
  \/ \E key \in LayerKeys : toggleVisible(key)
  \/ \E key \in LayerKeys, v \in ScaleValues : updateScale(key, v)
  \/ \E file \in Files, type \in {"logo", "qr"} : handleFileUpload(file, type)
  \/ handleExport
  \/ \E l \in loads : imageLoaded(l)
  \/ \E l \in loads : imageFailed(l)

Spec == Init /\ [][Next]_vars

\* Background generation, with edits of the document and the image loads
\* they start going on meanwhile.
GenNext ==
  \/ handleGenerate
  \/ \E k \in ApiKeys, a \in ServiceResponses :
       generateSettled(generatePosterBackground(k, a))
  \/ \E l \in loads : bgImageLoaded(l)
  \/ \E l \in loads : bgImageFailed(l)
  \/ \E key \in LayerKeys : toggleVisible(key)
  \/ \E value \in Themes : setTheme(value)
  \/ \E file \in Files, type \in {"logo", "qr"} : handleFileUpload(file, type)
  \/ \E l \in loads : imageLoaded(l)
  \/ \E l \in loads : imageFailed(l)

GenSpec == Init /\ [][GenNext]_vars

\* The promise awaited by handleGenerate settles, and the image it created
\* fires onload or onerror.
ServiceCompletes ==
  \E k \in ApiKeys, a \in ServiceResponses :
    generateSettled(generatePosterBackground(k, a))
BgLoadCompletes ==
  \E l \in loads : bgImageLoaded(l) \/ bgImageFailed(l)

\* Background generation where a service call that is awaited eventually
\* settles and a generated image that is loading eventually loads or fails.
GenLiveSpec ==
  /\ Init
  /\ [][GenNext]_vars
  /\ WF_vars(ServiceCompletes)
  /\ WF_vars(BgLoadCompletes)

\* updateScale called with any input, on a document whose layers are shown
\* and hidden.
ScaleNext ==
  \/ \E key \in LayerKeys, v \in ScaleInputs : updateScale(key, v)
  \/ \E key \in LayerKeys : toggleVisible(key)

ScaleSpec == Init /\ [][ScaleNext]_vars

\* The sub-headline edited and dragged. It has no entry in the layer list,
\* so it keeps its scale and stays visible; the pointer reaches it once the
\* headline above it is hidden.
WrapNext ==
  \/ \E value \in SubHeadlines : setSubHeadline(value)
  \/ \E e \in MouseEvents : handleMouseDown(e)
  \/ \E e \in MouseEvents : handleMouseMove(e)
  \/ onMouseUp
  \/ \E key \in LayerKeys : toggleVisible(key)

WrapSpec == Init /\ [][WrapNext]_vars

\* Both editors with no canvas element attached to canvasRef (React sets the
\* ref to null when the element is not mounted), their pointer handlers
\* being called nevertheless.
DetachedInit ==
  /\ config = DefaultConfig
  /\ activeDrag = NoDrag
  /\ isGenerating = FALSE
  /\ bgImgRef = NoImage
  /\ logoImgRef = NoImage
  /\ qrImgRef = NoImage
  /\ gen = NoGen
  /\ loads = StartedLoads(DefaultConfig, 0)
  /\ canvas = Render(DefaultConfig, Refs(NoImage, NoImage, NoImage))
  /\ uncaught = FALSE
  /\ ev = Event("mount", NoPos, "")
  /\ steps = 0
  /\ generations = 0
  /\ canvasRef = NoCanvas
  /\ drawn = 1
  /\ simple = [SimpleInit EXCEPT !.canvasRef = NoCanvas]

DetachedNext ==
  \/ \E e \in MouseEvents : handleMouseDown(e)
  \/ \E e \in MouseEvents : handleMouseMove(e)
  \/ onMouseUp
  \/ onMouseLeave
  \/ \E key \in LayerKeys : toggleVisible(key)
  \/ \E e \in MouseEvents : handleMouseDownSimple(e)
  \/ \E e \in MouseEvents : handleMouseMoveSimple(e)
  \/ onMouseUpSimple

DetachedSpec == DetachedInit /\ [][DetachedNext]_vars

\* The simplified editor.
SimpleNext ==
  \/ \E e \in MouseEvents : handleMouseDownSimple(e)
  \/ \E e \in MouseEvents : handleMouseMoveSimple(e)
  \/ onMouseUpSimple
  \/ \E value \in Themes : setThemeSimple(value)
  \/ handleGenerateSimple
  \/ \E k \in ApiKeys, a \in ServiceResponses :
       generateSettledSimple(generatePosterBackgroundSimple(k, a))
  \/ \E l \in simple.loads : bgImageLoadedSimple(l)

SimpleSpec == Init /\ [][SimpleNext]_vars

\* ------------------------------------------------------------------ claims

\* The pointer position of the event handled last.
EvPos == [x |-> ev.x, y |-> ev.y]

\* The visible elements strictly under the capture radius of pos.
Candidates(cfg, pos) ==
  {k \in ElementKeys :
     cfg[k].visible /\ DistSq(pos, cfg[k]) < CaptureRadius * CaptureRadius}

\* C1: every one of the eight placements has x and y within [0,100], after
\* any sequence of pointer, toggle, scale and upload events; so does every
\* position handleMouseMove writes during a drag.
C1_PlacementsInRange ==
  \A k \in ElementKeys :
    /\ config[k].x >= 0 /\ config[k].x <= 100
    /\ config[k].y >= 0 /\ config[k].y <= 100

\* A pointer-move of a drag whose candidate anchor lay off the canvas on both
\* axes (left of 0, below 100) and was stored on the border.
C1_Witness ==
  /\ ev.op = "mousemove"
  /\ activeDrag # NoDrag
  /\ ev.x - activeDrag.offsetX < 0
  /\ ev.y - activeDrag.offsetY > 100
  /\ config[activeDrag.key].x = 0
  /\ config[activeDrag.key].y = 100

\* C2: the x and the y handleMouseMove writes into the dragged element's
\* placement are each a multiple of the grid size 2.
C2_DraggedOnGrid ==
  (ev.op = "mousemove" /\ activeDrag # NoDrag)
    => /\ config[activeDrag.key].x % 2 = 0
       /\ config[activeDrag.key].y % 2 = 0

\* C3: a pointer-down picks a visible element at minimal distance among the
\* visible elements strictly under the capture radius, and starts the drag on
\* it; of two candidates at distances d1 < d2 the one at d2 is never picked.
C3_NearestPicked ==
  ev.op = "mousedown" =>
    LET cands == Candidates(config, EvPos)
    IN /\ cands = {} => ev.key = ""
       /\ cands # {} =>
            /\ ev.key \in cands
            /\ activeDrag.key = ev.key
            /\ \A k \in cands :
                 DistSq(EvPos, config[ev.key]) <= DistSq(EvPos, config[k])

\* A pointer-down with two candidates at different distances, the nearer of
\* which was picked although the scan meets the farther one later.
C3_Witness ==
  /\ ev.op = "mousedown"
  /\ \E k1, k2 \in Candidates(config, EvPos) :
       /\ DistSq(EvPos, config[k1]) < DistSq(EvPos, config[k2])
       /\ ev.key = k1
       /\ activeDrag.key = k1
       /\ \E i, j \in 1..Len(elements) :
            elements[i] = k1 /\ elements[j] = k2 /\ i < j

\* C4: a pointer-down with no visible element strictly under the capture
\* radius leaves no drag active, whatever the drag state was before it.
C4_MissClearsDrag ==
  (ev.op = "mousedown" /\ Candidates(config, EvPos) = {})
    => activeDrag = NoDrag

\* C5: a pointer-down never starts a drag on an element that is invisible at
\* that time: a drag it starts is on a visible element, and with the pointer
\* on a hidden element's anchor and no visible element under the capture
\* radius it starts none.
C5_HiddenNeverPicked ==
  [][ev'.op = "mousedown" =>
       /\ activeDrag' # activeDrag => config[activeDrag'.key].visible
       /\ ev'.key # "" => config[ev'.key].visible
       /\ Candidates(config, [x |-> ev'.x, y |-> ev'.y]) = {}
            => activeDrag' = activeDrag]_vars

\* A pointer-down exactly on the anchor of a hidden element, with no visible
\* element under the capture radius: nothing is picked, no drag starts.
C5_Witness ==
  /\ ev.op = "mousedown"
  /\ \E k \in ElementKeys :
       ~config[k].visible /\ config[k].x = ev.x /\ config[k].y = ev.y
  /\ Candidates(config, EvPos) = {}
  /\ ev.key = ""
  /\ activeDrag = NoDrag

\* C6: a successful pointer-down at p on e records offset = p - e's anchor,
\* and a pointer-move at the same p right after it leaves e's x and y (the
\* whole document) as they were before the pointer-down.
C6_NoJump ==
  [][/\ (ev'.op = "mousedown" /\ ev'.key # "")
          => activeDrag' = [key |-> ev'.key,
                            offsetX |-> ev'.x - config[ev'.key].x,
                            offsetY |-> ev'.y - config[ev'.key].y]
     /\ (ev.op = "mousedown" /\ ev.key # "" /\ ev'.op = "mousemove"
           /\ ev'.x = ev.x /\ ev'.y = ev.y)
          => config' = config]_vars

\* A pointer-move of a drag that was started off the element's anchor (the
\* offset is not zero) and has left the document as it was constructed: the
\* element stayed where it was, pointer minus offset.
C6_Witness ==
  /\ ev.op = "mousemove"
  /\ activeDrag # NoDrag
  /\ activeDrag.offsetX # 0
  /\ activeDrag.offsetY # 0
  /\ config = DefaultConfig
  /\ config[activeDrag.key].x = ev.x - activeDrag.offsetX
  /\ config[activeDrag.key].y = ev.y - activeDrag.offsetY

\* C7: pointer-up and pointer-leave end the drag and change no placement; a
\* pointer-move with no drag active changes no field of the document; and
\* only a pointer-down that hits an element makes a drag active again.
C7_UpEndsDrag ==
  [][/\ ev'.op \in {"mouseup", "mouseleave"}
          => (activeDrag' = NoDrag /\ config' = config)
     /\ (ev'.op = "mousemove" /\ activeDrag = NoDrag) => config' = config
     /\ (activeDrag = NoDrag /\ activeDrag' # NoDrag)
          => (ev'.op = "mousedown" /\ ev'.key # "")]_vars

\* A pointer-up that ended a drag which had moved its element.
C7_Witness ==
  /\ ev.op = "mouseup"
  /\ ev.key # ""
  /\ activeDrag = NoDrag
  /\ config[ev.key] # DefaultConfig[ev.key]

\* C8: the visibility toggle of an element changes that element's visible
\* flag and nothing else of the document (so hiding and showing it again
\* restores its x, y and scale).
C8_ToggleFrame ==
  [][ev'.op = "toggle" =>
       config' = [config EXCEPT ![ev'.key].visible = ~config[ev'.key].visible]]_vars

\* The logo rescaled to 2.5, hidden and shown again (three events, the last
\* the toggle that shows it): it has the x, y and scale it was hidden with.
C8_Witness ==
  /\ ev.op = "toggle"
  /\ ev.key = "posLogo"
  /\ steps = 3
  /\ config.posLogo = ElementPos(5, 5, 25, TRUE)

\* The calls of ops made for other elements than k.
Others(ops, k) == SelectSeq(ops, LAMBDA o : o.el # k)

\* C9: in every render, an element with visible = false makes no draw call,
\* and hiding an element leaves the draw calls of every other element
\* (position, size, paint state, order) exactly as they were.
C9_HiddenDrawsNothing ==
  LET shown == CanvasOps
  IN \A k \in ElementKeys :
       LET hidden == drawCanvas([canvas.cfg EXCEPT ![k].visible = FALSE],
                                canvas.refs)
       IN /\ ~canvas.cfg[k].visible =>
               \A i \in 1..Len(shown) : shown[i].el # k
          /\ \A i \in 1..Len(hidden) : hidden[i].el # k
          /\ Others(hidden, k) = Others(shown, k)

\* A render right after a layer was hidden, with the logo image loaded: the
\* layer is hidden in the rendered document and other layers are drawn.
C9_Witness ==
  /\ ev.op = "toggle"
  /\ ~config[ev.key].visible
  /\ canvas.cfg = config
  /\ canvas.refs.logo # NoImage
  /\ \E i \in 1..Len(CanvasOps) : CanvasOps[i].el = "posLogo"
  /\ \E i \in 1..Len(CanvasOps) : CanvasOps[i].el = "posHeadline"

\* The call that paints the background in a render.
BackgroundOp(render) == drawCanvas(render.cfg, render.refs)[2]

\* C10: when generatePosterBackground rejects, handleGenerate catches it:
\* nothing is thrown (by it or by any later step), the background slot and
\* the canvas stay as they were, and every render draws the image of the
\* slot as it then is, or the gradient when the slot is unset.
C10_RejectKeepsBackground ==
  [][/\ ~uncaught'
     /\ ev'.op = "generate_rejected"
          => (bgImgRef' = bgImgRef /\ canvas' = canvas)
     /\ (canvas' # canvas \/ ev'.op = "toggle") =>
          /\ canvas'.refs.bg = bgImgRef'
          /\ IF bgImgRef' = NoImage
             THEN /\ BackgroundOp(canvas').op = "fillRect"
                  /\ BackgroundOp(canvas').img = NoImage
             ELSE /\ BackgroundOp(canvas').op = "drawImage"
                  /\ BackgroundOp(canvas').img = bgImgRef']_vars

\* A rejected generation request made while a background generated earlier
\* is in the slot: the slot still holds it and the canvas still shows it.
C10_Witness ==
  /\ ev.op = "generate_rejected"
  /\ bgImgRef # NoImage
  /\ canvas.refs.bg = bgImgRef
  /\ BackgroundOp(canvas).img = bgImgRef
  /\ ~uncaught

\* C11: the background slot is set only from a generation request whose
\* theme is the document's theme when its image is put into the slot: the
\* result of a request issued under another theme is discarded.
C11_StaleResultDiscarded ==
  [][(ev'.op = "load" /\ ev'.key = "bg")
       => \E l \in loads \ loads' : l.slot = "bg" /\ l.cfg.theme = config.theme]_vars

\* C12: the completion of an image load (logo, QR, generated background)
\* makes exactly one call of drawCanvas, which leaves on the canvas the
\* render of the document it closed over with the image slots as they then
\* are.
C12_OneDrawPerLoad ==
  ev.op = "load" => (drawn = 1 /\ canvas.refs = CurrentRefs)

\* The load of a generated background completed, one call of drawCanvas
\* made, after the loads of a QR image and of the logo had completed.
C12_Witness ==
  /\ ev.op = "load"
  /\ ev.key = "bg"
  /\ drawn = 1
  /\ bgImgRef # NoImage
  /\ logoImgRef # NoImage
  /\ qrImgRef # NoImage
  /\ canvas.refs = CurrentRefs

\* The simplified editor records the message of a failed generation.
SimpleFailureRecorded ==
  simple.ev.op = "generate_rejected"
    => (simple.errorMsg = simple.ev.key /\ ~simple.isGenerating
        /\ ~simple.uncaught)

\* C13: after a failed background generation the editor's state holds the
\* failure's message for the user, in the full editor as in the simplified
\* one, and no exception has left the handler.
C13_FailureRecorded ==
  /\ ev.op = "generate_rejected" => (FullErrorMsg = ev.key /\ ~uncaught)
  /\ SimpleFailureRecorded

\* The event the simplified editor handled last was a pointer-move that
\* wrote the placement of the dragged element.
SimpleMoved ==
  simple.ev.op = "mousemove" /\ simple.ev.key # "" /\ ~simple.uncaught

\* C14: the x and the y handleMouseMove of the simplified editor stores are
\* each a multiple of SNAP_SIZE and lie within [0,100], whatever the pointer
\* position and the recorded offset.
C14_SnappedInRange ==
  SimpleMoved =>
    LET item == simple.config[simple.ev.key]
    IN /\ item.x % SNAP_SIZE = 0 /\ item.y % SNAP_SIZE = 0
       /\ item.x >= 0 /\ item.x <= 100
       /\ item.y >= 0 /\ item.y <= 100

\* The values Snap is applied to.
SnapInputs == (0 - SnapMargin)..(100 + SnapMargin)

\* The simplified editor's last two events were a pointer-down that hit an
\* element and a pointer-move at the same point.
MovedInPlace ==
  /\ simple.ev.op = "mousedown" /\ simple.ev.key # ""
  /\ simple'.ev.op = "mousemove" /\ ~simple'.uncaught
  /\ simple'.ev.x = simple.ev.x /\ simple'.ev.y = simple.ev.y

\* C15: Snap is idempotent, Snap(Snap(v)) = Snap(v): on every input, and on
\* every value the drag handler has stored; and a drag by a zero
\* displacement of an element that lies on the grid does not move it.
C15_SnapIdempotent ==
  [][/\ \A v \in SnapInputs : Snap(Snap(v)) = Snap(v)
     /\ SimpleMoved' =>
          LET item == simple'.config[simple'.ev.key]
          IN Snap(item.x) = item.x /\ Snap(item.y) = item.y
     /\ (/\ MovedInPlace
         /\ simple.config[simple.ev.key].x % SNAP_SIZE = 0
         /\ simple.config[simple.ev.key].y % SNAP_SIZE = 0)
          => simple'.config = simple.config]_vars

\* The logo, dragged onto the grid point (6,6) before, was picked again off
\* its anchor and moved by nothing: it is stored where it was.
C15_Witness ==
  /\ SimpleMoved
  /\ simple.steps = 4
  /\ simple.ev.key = "posLogo"
  /\ simple.activeDrag.offsetX # 0
  /\ simple.config.posLogo.x = simple.ev.x - simple.activeDrag.offsetX
  /\ simple.config.posLogo.y = simple.ev.y - simple.activeDrag.offsetY
  /\ simple.config.posLogo.x = 6 /\ simple.config.posLogo.y = 6

\* The keys of the simplified editor's hit detection whose anchor is less
\* than 10 from pos on both axes.
HitKeys(cfg, pos) ==
  {k \in {SimpleKeys[i] : i \in 1..Len(SimpleKeys)} :
     Abs(cfg[k].x - pos.x) < 10 /\ Abs(cfg[k].y - pos.y) < 10}

\* C16: in the simplified editor pointer-up ends the drag and leaves
\* selectedElement as it is, pointer-move leaves it as it is, and it changes
\* at a pointer-down only, which sets it to the element hit or clears it
\* when none is hit.
C16_SelectionFrame ==
  [][/\ simple'.ev.op = "mouseup"
          => (/\ simple'.selectedElement = simple.selectedElement
              /\ simple'.activeDrag = NoDrag)
     /\ simple'.ev.op = "mousemove"
          => simple'.selectedElement = simple.selectedElement
     /\ simple'.selectedElement # simple.selectedElement
          => simple'.ev.op = "mousedown"
     /\ simple'.ev.op = "mousedown"
          => LET hits == HitKeys(simple.config,
                                 [x |-> simple'.ev.x, y |-> simple'.ev.y])
             IN IF hits = {}
                THEN simple'.selectedElement = NoSelection
                ELSE simple'.selectedElement \in hits]_vars

\* A pointer-up that ended a drag of the logo, which is still selected.
C16_Witness ==
  /\ simple.ev.op = "mouseup"
  /\ simple.ev.key = "posLogo"
  /\ simple.activeDrag = NoDrag
  /\ simple.selectedElement = "posLogo"

OpsOf(el) == SelectSeq(CanvasOps, LAMBDA o : o.el = el)

\* C18: what is exported differs from what the preview shows: the preview
\* has the snap grid and the headline without a drop shadow, the export has
\* no grid and no selection outline and the headline with a drop shadow.
C18_ModesDiffer ==
  LET headline == OpsOf("posHeadline")
  IN IF ev.op = "export"
     THEN /\ OpsOf("grid") = <<>>
          /\ OpsOf("selection") = <<>>
          /\ \A i \in 1..Len(headline) : headline[i].paint.shadowBlur > 0
     ELSE /\ OpsOf("grid") # <<>>
          /\ \A i \in 1..Len(headline) : headline[i].paint.shadowBlur = 0

\* What is exported is the canvas of the preview, call for call.
ExportIsPreview ==
  [][ev'.op = "export" => canvas' = canvas]_vars

C20_CanvasCurrent ==
  (loads = {} /\ ~gen.pending) => canvas = Render(config, CurrentRefs)

\* The load of a generated background has completed, nothing is pending, and
\* the canvas shows the document as it was when the generation was started,
\* not the edit made meanwhile.
StaleAfterGeneration ==
  /\ ev.op = "load" /\ ev.key = "bg"
  /\ loads = {} /\ ~gen.pending
  /\ canvas.cfg = DefaultConfig
  /\ config # DefaultConfig
  /\ logoImgRef # NoImage

\* The logo loads that have not ended.
LogoLoads(ls) == {l \in ls : l.slot = "logo"}

\* C21: a logo load that completes last, while the slot holds the image of
\* the document's current logoUrl, leaves in the slot an image of the current
\* logoUrl: the load of an earlier logoUrl that finishes late does not
\* replace it.
C21_LateLoadDiscarded ==
  [][(/\ ev'.op = "load" /\ ev'.key = "logo" /\ steps' # steps
      /\ logoImgRef # NoImage
      /\ logoImgRef.src = config.logoUrl
      /\ LogoLoads(loads') = {})
       => logoImgRef'.src = config'.logoUrl]_vars

\* The step is a pointer event of the full editor.
PointerStep ==
  /\ steps' # steps
  /\ ev'.op \in {"mousedown", "mousemove", "mouseup", "mouseleave"}

\* C22, as stated: no pointer event changes the x or y of an element that is
\* invisible, also when it was hidden in the middle of a drag.
C22_HiddenNotMoved ==
  [][PointerStep =>
       \A k \in ElementKeys :
         ~config[k].visible
           => (config'[k].x = config[k].x /\ config'[k].y = config[k].y)]_vars

\* C22, amended: no pointer-down starts a drag on an invisible element; a
\* pointer-move of a drag whose element was hidden meanwhile writes the
\* clamped pointer position into that element's x and y and nothing else,
\* raises nothing, and changes no call of the render: the document draws
\* after the move as it drew before.
C22_HiddenDragTolerated ==
  [][/\ (PointerStep /\ ev'.op = "mousedown" /\ activeDrag' # activeDrag)
          => config[activeDrag'.key].visible
     /\ (/\ PointerStep /\ ev'.op = "mousemove"
         /\ activeDrag # NoDrag
         /\ ~config[activeDrag.key].visible)
          => LET k == activeDrag.key
             IN /\ ~uncaught'
                /\ config'[k].x = Max(0, Min(100, ev'.x - activeDrag.offsetX))
                /\ config'[k].y = Max(0, Min(100, ev'.y - activeDrag.offsetY))
                /\ config' = [config EXCEPT ![k].x = config'[k].x,
                                            ![k].y = config'[k].y]
                /\ canvas' = Render(config', CurrentRefs)
                /\ drawCanvas(config', CurrentRefs)
                     = drawCanvas(config, CurrentRefs)]_vars

\* The headline, hidden in the middle of its drag, was moved by the next
\* pointer-move, and the canvas was redrawn from that document.
C22_Witness ==
  /\ ev.op = "mousemove"
  /\ ev.key = "posHeadline"
  /\ activeDrag.key = "posHeadline"
  /\ ~config.posHeadline.visible
  /\ config.posHeadline.x # DefaultConfig.posHeadline.x
  /\ canvas = Render(config, CurrentRefs)

\* The generated images that are still loading, and the number of
\* generations in flight: a service call awaited or an image loading.
BgLoads(ls) == {l \in ls : l.slot = "bg"}
InFlight == (IF gen.pending THEN 1 ELSE 0) + Cardinality(BgLoads(loads))

\* C23: at most one generation is in flight; while one is, isGenerating is
\* set, so the button is disabled and no other handleGenerate starts before
\* this one has reset it; the image about to be applied to the background
\* slot is that of the latest handleGenerate.
C23_OneGenerationInFlight ==
  /\ InFlight <= 1
  /\ InFlight = 1 => isGenerating
  /\ \A l \in BgLoads(loads) : l.id = generations

\* The image of a second generation was applied to the background slot.
C23_Witness ==
  /\ ev.op = "load"
  /\ ev.key = "bg"
  /\ generations = 2
  /\ bgImgRef # NoImage
  /\ ~isGenerating

\* C24: every handleGenerate that has set isGenerating is followed by a state
\* where isGenerating is false again, however the service call and the image
\* load end, provided each of them ends.
C24_GenerationEnds == isGenerating ~> ~isGenerating

\* A generation ended with the returned image failing to decode, and
\* isGenerating is false again.
C24_Witness ==
  /\ ev.op = "error"
  /\ ev.key = "bg"
  /\ generations >= 1
  /\ InFlight = 0
  /\ ~isGenerating

\* C25: in the simplified editor isGenerating is set whenever a request of
\* handleGenerate has not finished: its service call is awaited or its image
\* is loading.
C25_BusyWhileUnfinished ==
  (simple.gen > 0 \/ simple.loads # {}) => simple.isGenerating

\* The words of a sequence of lines, in order.
RECURSIVE Flatten(_)
Flatten(lines) ==
  IF lines = <<>> THEN <<>> ELSE Head(lines) \o Flatten(Tail(lines))

\* The width of a drawn line in the font it was drawn with.
LineWidth(op) == measureChars(LineChars(op.text), op.paint)

\* C26: the sub-headline is drawn as a greedy word wrap: a finite number of
\* lines, none without a word; the words of all lines, in the order drawn,
\* are the words of the text, each once; the k-th line (from 0) is drawn at
\* y + k * lineHeight; a line of more than one word is at most maxWidth wide;
\* and no line could have taken the first word of the next line without
\* exceeding maxWidth.
C26_GreedyWrap ==
  LET cfg == canvas.cfg
      ops == OpsOf("posSubHeadline")
      words == split(cfg.subHeadline)
      maxWidth == (MilliPx(CanvasWidthPx) * 85) \div 100
      lineHeight == WidthShare(55, cfg.posSubHeadline.scale)
      lines == [k \in 1..Len(ops) |-> ops[k].text]
  IN cfg.posSubHeadline.visible =>
       /\ Len(ops) \in 1..Len(words)
       /\ Flatten(lines) = words
       /\ \A k \in 1..Len(ops) :
            /\ Len(ops[k].text) >= 1
            /\ ops[k].op = "fillText"
            /\ ops[k].x = Px(cfg.posSubHeadline.x)
            /\ ops[k].y = Py(cfg, cfg.posSubHeadline.y) + (k - 1) * lineHeight
            /\ Len(ops[k].text) > 1 => LineWidth(ops[k]) <= maxWidth
            /\ k < Len(ops) =>
                 LineWidth([ops[k] EXCEPT
                              !.text = Append(@, Head(ops[k + 1].text))])
                   > maxWidth

\* A sub-headline with a word wider than a line was wrapped: three lines,
\* the second made of that word alone and wider than maxWidth.
C26_Witness ==
  LET ops == OpsOf("posSubHeadline")
  IN /\ ev.op = "subHeadline"
     /\ canvas.cfg.subHeadline
          = "Register at https://aaiena.com/workshops/productivity-2024 today"
     /\ canvas.cfg.posSubHeadline.visible
     /\ Len(ops) = 3
     /\ ops[1].text = <<"Register", "at">>
     /\ ops[2].text = <<"https://aaiena.com/workshops/productivity-2024">>
     /\ LineWidth(ops[2]) > (MilliPx(CanvasWidthPx) * 85) \div 100
     /\ ops[3].text = <<"today">>

====
